---- MODULE Spec2Model ----
(***************************************************************************)
(* Model of NBitInteger (src/n_bit_binary/n_bit_binary.py): an n-bit       *)
(* two's complement integer with mutable width, signedness and bits.       *)
(*                                                                         *)
(* One instance `self` is operated on; `last` records the most recent      *)
(* call: its name, arguments, the instance before the call, the exception  *)
(* raised (or "None") and the instance returned, if any.                   *)
(***************************************************************************)
EXTENDS Integers, Sequences, FiniteSets, TLC

VARIABLES self, last

vars == <<self, last>>

(* ---------------------------- bounds ----------------------------------- *)

\* Largest width any instance is given or grown to.
MaxBits == 3

\* Integers offered as values and operands: every range of width
\* <= MaxBits, plus values beyond both ends.
Numbers == (-(2^MaxBits) - 1) .. (2^MaxBits + 1)

\* Widths offered to the constructor and to the bits setter.
Widths == -1 .. MaxBits

\* Bit indices offered to reads and writes: every index of the largest
\* width, and one beyond it at either end.
Indices == (-MaxBits - 1) .. MaxBits

\* Right operands offered to the binary operators.
Operands == (-MaxBits) .. MaxBits

\* Slices offered to range reads and writes: start and stop are None or
\* an index, step is None or a non-zero stride.
OptIndex == {<<>>} \cup {<<i>> : i \in Indices}

Strides == {<<>>} \cup {<<k>> : k \in {-2, -1, 2}}

Slices == OptIndex \X OptIndex \X Strides

(* ------------------- Python integers as bit patterns ------------------- *)

\* Bit i of a Python int (infinite two's complement): n & (1 << i) != 0.
Bit(n, i) == (n \div (2^i)) % 2

\* n | (1 << offset)
OrMask(n, offset) == IF Bit(n, offset) = 1 THEN n ELSE n + 2^offset

\* n & ~(1 << offset)
AndNotMask(n, offset) == IF Bit(n, offset) = 1 THEN n - 2^offset ELSE n

\* int(s, 2) for a sequence s of binary digits, most significant first.
RECURSIVE ParseBase2(_)
ParseBase2(s) ==
    IF Len(s) = 0 THEN 0
    ELSE 2 * ParseBase2(SubSeq(s, 1, Len(s) - 1)) + s[Len(s)]

(* ----------------------------- instances ------------------------------- *)

Inst(number, bits, signed, max, min) ==
    [number |-> number, bits |-> bits, signed |-> signed,
     max |-> max, min |-> min]

\* Placeholder where a call produced no instance.
NoInst == Inst(0, 0, FALSE, 0, 0)

\* Outcome of a call: exception name or "None", the receiver afterwards,
\* and the returned instance (has = FALSE when nothing is returned).
Outcome(err, obj, has, ret) ==
    [err |-> err, obj |-> obj, has |-> has, ret |-> ret]

\* __init__(number, bits, signed)
NBitIntegerMax(bits, signed) ==
    IF signed THEN ((2^bits) \div 2) - 1 ELSE 2^bits

NBitIntegerMin(bits, signed) ==
    IF signed THEN NBitIntegerMax(bits, signed) * (-1) ELSE 0

NBitInteger(number, bits, signed) ==
    IF bits <= 0 THEN [err |-> "ValueError", inst |-> NoInst]
    ELSE IF number > NBitIntegerMax(bits, signed)
            THEN [err |-> "OverflowError", inst |-> NoInst]
    ELSE IF number < NBitIntegerMin(bits, signed)
            THEN [err |-> "OverflowError", inst |-> NoInst]
    ELSE [err |-> "None",
          inst |-> Inst(number, bits, signed,
                        NBitIntegerMax(bits, signed),
                        NBitIntegerMin(bits, signed))]

\* bit_string(): big-endian digits, one per bit of the current width.
bit_string(x) == [j \in 1..x.bits |-> Bit(x.number, x.bits - j)]

\* number setter
number_setter(x, value) ==
    IF value > x.max THEN Outcome("OverflowError", x, FALSE, NoInst)
    ELSE IF value < x.min THEN Outcome("OverflowError", x, FALSE, NoInst)
    ELSE Outcome("None", [x EXCEPT !.number = value], FALSE, NoInst)

\* bits setter
bits_setter_max(x, value) ==
    IF x.signed THEN ((2^value) \div 2) - 1 ELSE 2^value - 1

bits_setter_min(x, value) ==
    IF x.signed THEN bits_setter_max(x, value) * (-1) + 1 ELSE 0

bits_setter(x, value) ==
    IF value <= 0 THEN Outcome("ValueError", x, FALSE, NoInst)
    ELSE
      LET temp_max == bits_setter_max(x, value)
          temp_min == bits_setter_min(x, value)
          temp_value == ParseBase2(bit_string(x))
          resized == [x EXCEPT !.bits = value, !.max = temp_max,
                               !.min = temp_min]
      IN IF temp_value > temp_max \/ temp_value < temp_min
            THEN Outcome("OverflowError", x, FALSE, NoInst)
            ELSE Outcome("None",
                         [resized EXCEPT
                            !.number = ParseBase2(bit_string(resized))],
                         FALSE, NoInst)

\* signed setter
signed_setter_max(x, value) ==
    IF value THEN ((2^x.bits) \div 2) - 1 ELSE 2^x.bits - 1

signed_setter_min(x, value) ==
    IF value THEN x.max * (-1) + 1 ELSE 0

signed_setter(x, value) ==
    IF x.number > signed_setter_max(x, value)
       THEN Outcome("OverflowError", x, FALSE, NoInst)
    ELSE IF x.number < signed_setter_min(x, value)
       THEN Outcome("OverflowError", x, FALSE, NoInst)
    ELSE Outcome("None", [x EXCEPT !.signed = value], FALSE, NoInst)

\* _set_bit(offset): offset 0 is the least significant bit.
set_bit(x, offset) ==
    LET n == OrMask(x.number, offset) IN
    IF x.signed /\ n > x.max
       THEN [x EXCEPT !.number = n - 2^x.bits]
       ELSE [x EXCEPT !.number = n]

\* _clear_bit(offset)
clear_bit(x, offset) == [x EXCEPT !.number = AndNotMask(x.number, offset)]

\* append without the shift that makes room for the new bit.
append_unshifted(x, value) ==
    LET grown == bits_setter(x, x.bits + 1) IN
    IF grown.err # "None" THEN grown
    ELSE Outcome("None",
                 IF value THEN set_bit(grown.obj, 0)
                          ELSE clear_bit(grown.obj, 0),
                 FALSE, NoInst)

\* append(value): new least significant bit.
append(x, value) ==
    LET grown == bits_setter(x, x.bits + 1) IN
    IF grown.err # "None" THEN grown
    ELSE LET shifted == [grown.obj EXCEPT !.number = grown.obj.number * 2]
         IN Outcome("None",
                    IF value THEN set_bit(shifted, 0)
                             ELSE clear_bit(shifted, 0),
                    FALSE, NoInst)

\* prepend that writes the new bit at the least significant position.
prepend_low(x, value) ==
    LET grown == bits_setter(x, x.bits + 1) IN
    IF grown.err # "None" THEN grown
    ELSE Outcome("None",
                 IF value THEN set_bit(grown.obj, 0)
                          ELSE clear_bit(grown.obj, 0),
                 FALSE, NoInst)

\* prepend(value): new most significant bit.
prepend(x, value) ==
    LET grown == bits_setter(x, x.bits + 1) IN
    IF grown.err # "None" THEN grown
    ELSE Outcome("None",
                 IF value THEN set_bit(grown.obj, grown.obj.bits - 1)
                          ELSE clear_bit(grown.obj, grown.obj.bits - 1),
                 FALSE, NoInst)

(* ------------------------- index and slice keys ------------------------ *)

\* An optional integer (Python None or an int) is <<>> or <<n>>.
IsNone(o) == Len(o) = 0

\* slice.indices(length) for slice(start, stop, step), step # 0: the
\* triple <<start, stop, step>> of the range it denotes.
SliceClamp(o, length, step, ifNone) ==
    LET lower == IF step < 0 THEN -1 ELSE 0
        upper == IF step < 0 THEN length - 1 ELSE length
        v == IF o[1] < 0 THEN o[1] + length ELSE o[1]
    IN IF IsNone(o) THEN ifNone
       ELSE IF v < lower THEN lower
       ELSE IF v > upper THEN upper
       ELSE v

SliceIndices(sl, length) ==
    LET step == IF IsNone(sl[3]) THEN 1 ELSE sl[3][1]
        lower == IF step < 0 THEN -1 ELSE 0
        upper == IF step < 0 THEN length - 1 ELSE length
    IN << SliceClamp(sl[1], length, step,
                     IF step < 0 THEN upper ELSE lower),
          SliceClamp(sl[2], length, step,
                     IF step < 0 THEN lower ELSE upper),
          step >>

\* len(range(start, stop, step))
RangeLen(r) ==
    IF r[3] > 0
       THEN IF r[1] < r[2] THEN (r[2] - r[1] - 1) \div r[3] + 1 ELSE 0
       ELSE IF r[1] > r[2] THEN (r[1] - r[2] - 1) \div (-r[3]) + 1 ELSE 0

\* The elements of range(start, stop, step), in order.
RangeSeq(r) == [j \in 1..RangeLen(r) |-> r[1] + (j - 1) * r[3]]

\* range(key, key + 1) for an integer key.
IntKey(key) == <<key, key + 1, 1>>

\* __setitem__(key, value), key already turned into a range r
RECURSIVE setitem_loop(_, _, _, _)
setitem_loop(x, key, j, value) ==
    IF j > Len(key) THEN x
    ELSE LET i == IF key[j] < 0 THEN key[j] + x.bits ELSE key[j]
         IN setitem_loop(IF value THEN set_bit(x, x.bits - 1 - i)
                                  ELSE clear_bit(x, x.bits - 1 - i),
                         key, j + 1, value)

setitem(x, r, value) ==
    IF \/ (r[1] < 0 /\ x.bits - r[1] < 0)
       \/ r[1] > x.bits - 1
       \/ (r[2] < 0 /\ x.bits - r[2] < 0)
       \/ r[2] > x.bits
       THEN Outcome("IndexError", x, FALSE, NoInst)
       ELSE Outcome("None", setitem_loop(x, RangeSeq(r), 1, value),
                    FALSE, NoInst)

\* __getitem__(key), key already turned into a range r.  The loop body
\* returns either the instance built so far or the exception raised.
RECURSIVE getitem_loop(_, _, _, _)
getitem_loop(x, key, j, return_value) ==
    IF j > Len(key) THEN Outcome("None", x, TRUE, return_value)
    ELSE LET i == IF key[j] < 0 THEN key[j] + x.bits ELSE key[j]
             shift == x.bits - 1 - i
         IN IF shift < 0
               THEN Outcome("ValueError", x, FALSE, NoInst)
            ELSE IF j = 1
               THEN getitem_loop(x, key, j + 1,
                                 IF Bit(x.number, shift) = 1
                                    THEN set_bit(return_value, 0)
                                    ELSE return_value)
            ELSE LET grown == append(return_value,
                                     Bit(x.number, shift) = 1)
                 IN IF grown.err # "None"
                       THEN Outcome(grown.err, x, FALSE, NoInst)
                       ELSE getitem_loop(x, key, j + 1, grown.obj)

getitem(x, r) ==
    IF RangeLen(r) < 1 THEN Outcome("ValueError", x, FALSE, NoInst)
    ELSE getitem_loop(x, RangeSeq(r), 1, NBitInteger(0, 1, TRUE).inst)

(* ------------------------ arithmetic operators ------------------------- *)

\* Python's a & b, a | b, a ^ b on unbounded two's complement integers.
RECURSIVE BitAnd(_, _)
BitAnd(a, b) ==
    IF a = 0 \/ b = 0 THEN 0
    ELSE IF a = -1 THEN b
    ELSE IF b = -1 THEN a
    ELSE (a % 2) * (b % 2) + 2 * BitAnd(a \div 2, b \div 2)

RECURSIVE BitOr(_, _)
BitOr(a, b) ==
    IF a = 0 THEN b
    ELSE IF b = 0 THEN a
    ELSE IF a = -1 \/ b = -1 THEN -1
    ELSE (IF a % 2 = 1 \/ b % 2 = 1 THEN 1 ELSE 0)
         + 2 * BitOr(a \div 2, b \div 2)

RECURSIVE BitXor(_, _)
BitXor(a, b) ==
    IF a = 0 THEN b
    ELSE IF b = 0 THEN a
    ELSE IF a = -1 THEN -b - 1
    ELSE IF b = -1 THEN -a - 1
    ELSE (IF a % 2 = b % 2 THEN 0 ELSE 1)
         + 2 * BitXor(a \div 2, b \div 2)

\* Python's a // b (floor) and a % b (sign of the divisor), b # 0.
FloorDiv(a, b) == IF b > 0 THEN a \div b ELSE (-a) \div (-b)

PyMod(a, b) == a - b * FloorDiv(a, b)

\* int(a ** k): for k < 0 the power is a float, which __init__ truncates.
PyPow(a, k) ==
    IF k = 0 THEN 1
    ELSE IF k > 0 THEN a^k
    ELSE IF a = 1 THEN 1
    ELSE IF a = -1 THEN (IF k % 2 = 0 THEN 1 ELSE -1)
    ELSE 0

BinOps == {"add", "sub", "mul", "floor_div", "mod", "pow", "shl", "shr",
           "bit_and", "bit_xor", "bit_or"}

\* The exception the expression self.number <op> other raises, if any.
binop_error(op, a, k) ==
    IF op \in {"floor_div", "mod"} /\ k = 0 THEN "ZeroDivisionError"
    ELSE IF op = "pow" /\ k < 0 /\ a = 0 THEN "ZeroDivisionError"
    ELSE IF op \in {"shl", "shr"} /\ k < 0 THEN "ValueError"
    ELSE "None"

\* The integer handed to __init__ by the operator, when no exception.
binop_value(op, a, k) ==
    CASE op = "add" -> a + k
      [] op = "sub" -> a - k
      [] op = "mul" -> a * k
      [] op = "floor_div" -> FloorDiv(a, k)
      [] op = "mod" -> PyMod(a, k)
      [] op = "pow" -> PyPow(a, k)
      [] op = "shl" -> a * 2^k
      [] op = "shr" -> a \div 2^k
      [] op = "bit_and" -> BitAnd(a, k)
      [] op = "bit_xor" -> BitXor(a, k)
      [] op = "bit_or" -> BitOr(a, k)

\* NBitInteger(value, signed=..., bits=...) as the result of an operator.
construct(x, value, signed) ==
    LET r == NBitInteger(value, x.bits, signed) IN
    Outcome(r.err, x, r.err = "None", r.inst)

\* __add__ .. __or__
binop(x, op, k) ==
    IF binop_error(op, x.number, k) # "None"
       THEN Outcome(binop_error(op, x.number, k), x, FALSE, NoInst)
       ELSE construct(x, binop_value(op, x.number, k), x.signed)

UnOps == {"neg", "pos", "abs", "invert"}

\* __neg__, __pos__, __abs__, __invert__
unop(x, op) ==
    CASE op = "neg" ->
           IF x.signed THEN construct(x, -x.number, x.signed)
           ELSE IF -x.number < 0 THEN construct(x, -x.number, TRUE)
           ELSE Outcome("None", x, FALSE, NoInst)
      [] op = "pos" -> construct(x, x.number, x.signed)
      [] op = "abs" ->
           construct(x, IF x.number < 0 THEN -x.number ELSE x.number,
                     x.signed)
      [] op = "invert" -> construct(x, -x.number - 1, x.signed)

(* ------------------------------ rendering ------------------------------ *)

DigitChars == <<"0", "1", "2", "3", "4", "5", "6", "7", "8", "9">>

\* str(n) for an integer n: a sequence of characters.
RECURSIVE str_digits(_)
str_digits(n) ==
    IF n < 10 THEN <<DigitChars[n + 1]>>
    ELSE str_digits(n \div 10) \o <<DigitChars[(n % 10) + 1]>>

str(n) == IF n < 0 THEN <<"-">> \o str_digits(-n) ELSE str_digits(n)

\* __repr__(): "NBitInteger(" + str(number) + ", " + str(bits) + ")"
repr(x) == <<"NBitInteger(">> \o str(x.number) \o <<", ">>
              \o str(x.bits) \o <<")">>

\* The integer an integer literal (with optional unary minus) evaluates to.
RECURSIVE literal_digits(_)
literal_digits(text) ==
    IF Len(text) = 0 THEN 0
    ELSE 10 * literal_digits(SubSeq(text, 1, Len(text) - 1))
         + (CHOOSE d \in 0..9 : DigitChars[d + 1] = text[Len(text)])

literal(text) ==
    IF text[1] = "-" THEN -literal_digits(Tail(text))
                     ELSE literal_digits(text)

\* eval(text) for a rendered constructor call with two positional
\* arguments: signed takes its default, True.
eval_repr(x, text) ==
    LET comma == CHOOSE j \in 1..Len(text) : text[j] = ", "
        r == NBitInteger(literal(SubSeq(text, 2, comma - 1)),
                         literal(SubSeq(text, comma + 1, Len(text) - 1)),
                         TRUE)
    IN Outcome(r.err, x, r.err = "None", r.inst)

(* ------------------------------ calls ---------------------------------- *)

NoSlice == <<<<>>, <<>>, <<>>>>

Args(a, b, flag, sl) == [a |-> a, b |-> b, flag |-> flag, sl |-> sl]

\* Nothing pending: the caller is between two calls.
Idle == [op |-> "idle", args |-> Args(0, 0, FALSE, NoSlice), pre |-> NoInst,
         err |-> "None", has |-> FALSE, ret |-> NoInst]

Call(op, args, pre, out) ==
    [op |-> op, args |-> args, pre |-> pre, err |-> out.err,
     has |-> out.has, ret |-> out.ret]

\* NBitInteger(number, bits, signed): on success the new instance becomes
\* the instance under study; on failure no instance is produced.
New(number, bits, signed) ==
    /\ last = Idle
    /\ LET r == NBitInteger(number, bits, signed) IN
       /\ self' = IF r.err = "None" THEN r.inst ELSE self
       /\ last' = Call("new", Args(number, bits, signed, NoSlice), self,
                       Outcome(r.err, self, r.err = "None", r.inst))

SetValue(value) ==
    /\ last = Idle
    /\ LET out == number_setter(self, value) IN
       /\ self' = out.obj
       /\ last' = Call("set_value", Args(value, 0, FALSE, NoSlice), self, out)

SetWidth(value) ==
    /\ last = Idle
    /\ LET out == bits_setter(self, value) IN
       /\ self' = out.obj
       /\ last' = Call("set_width", Args(value, 0, FALSE, NoSlice), self, out)

SetSigned(value) ==
    /\ last = Idle
    /\ LET out == signed_setter(self, value) IN
       /\ self' = out.obj
       /\ last' = Call("set_signed", Args(0, 0, value, NoSlice), self, out)

AppendBit(value) ==
    /\ last = Idle
    /\ self.bits < MaxBits
    /\ LET out == append(self, value) IN
       /\ self' = out.obj
       /\ last' = Call("append", Args(0, 0, value, NoSlice), self, out)

PrependBit(value) ==
    /\ last = Idle
    /\ self.bits < MaxBits
    /\ LET out == prepend(self, value) IN
       /\ self' = out.obj
       /\ last' = Call("prepend", Args(0, 0, value, NoSlice), self, out)

\* self[key] = value for an integer key: set_bit / clear_bit by index.
SetItemInt(key, value) ==
    /\ last = Idle
    /\ LET out == setitem(self, IntKey(key), value) IN
       /\ self' = out.obj
       /\ last' = Call("set_bit", Args(key, 0, value, NoSlice), self, out)

\* self[start:stop:step] = value
SetItemSlice(sl, value) ==
    /\ last = Idle
    /\ LET out == setitem(self, SliceIndices(sl, self.bits), value) IN
       /\ self' = out.obj
       /\ last' = Call("set_range", Args(0, 0, value, sl), self, out)

\* self[key] for an integer key
GetItemInt(key) ==
    /\ last = Idle
    /\ LET out == getitem(self, IntKey(key)) IN
       /\ self' = out.obj
       /\ last' = Call("get_bit", Args(key, 0, FALSE, NoSlice), self, out)

\* self[start:stop:step]
GetItemSlice(sl) ==
    /\ last = Idle
    /\ LET out == getitem(self, SliceIndices(sl, self.bits)) IN
       /\ self' = out.obj
       /\ last' = Call("get_range", Args(0, 0, FALSE, sl), self, out)

\* self <op> other for an integer other
BinaryOp(op, other) ==
    /\ last = Idle
    /\ LET out == binop(self, op, other) IN
       /\ self' = out.obj
       /\ last' = Call(op, Args(other, 0, FALSE, NoSlice), self, out)

\* -self, +self, abs(self), ~self
UnaryOp(op) ==
    /\ last = Idle
    /\ LET out == unop(self, op) IN
       /\ self' = out.obj
       /\ last' = Call(op, Args(0, 0, FALSE, NoSlice), self, out)

\* self[key] = False called right after a successful self[key] = True on
\* the same key; `pre` stays the instance from before the two calls.
ClearSameBit ==
    /\ last.op = "set_bit"
    /\ last.args.flag
    /\ last.err = "None"
    /\ LET out == setitem(self, IntKey(last.args.a), FALSE) IN
       /\ self' = out.obj
       /\ last' = Call("set_then_clear", Args(last.args.a, 0, FALSE, NoSlice),
                       last.pre, out)

\* eval(repr(self))
DebugString ==
    /\ last = Idle
    /\ LET out == eval_repr(self, repr(self)) IN
       /\ self' = out.obj
       /\ last' = Call("debug_string", Args(0, 0, FALSE, NoSlice), self, out)

\* The caller is done with the outcome of the last call.
Return ==
    /\ last # Idle
    /\ last' = Idle
    /\ UNCHANGED self

Init ==
    \E number \in Numbers, bits \in Widths, signed \in BOOLEAN :
        LET r == NBitInteger(number, bits, signed) IN
        /\ r.err = "None"
        /\ self = r.inst
        /\ last = Call("new", Args(number, bits, signed, NoSlice), NoInst,
                       Outcome("None", NoInst, TRUE, r.inst))

Next ==
    \/ /\ last = Idle
       /\ \E number \in Numbers, bits \in Widths, signed \in BOOLEAN :
             New(number, bits, signed)
    \/ /\ last = Idle
       /\ \E value \in Numbers : SetValue(value)
    \/ /\ last = Idle
       /\ \E value \in Widths : SetWidth(value)
    \/ /\ last = Idle
       /\ \E value \in BOOLEAN : SetSigned(value)
    \/ /\ last = Idle
       /\ \E value \in BOOLEAN : AppendBit(value)
    \/ /\ last = Idle
       /\ \E value \in BOOLEAN : PrependBit(value)
    \/ /\ last = Idle
       /\ \E key \in Indices, value \in BOOLEAN : SetItemInt(key, value)
    \/ /\ last = Idle
       /\ \E sl \in Slices, value \in BOOLEAN : SetItemSlice(sl, value)
    \/ /\ last = Idle
       /\ \E key \in Indices : GetItemInt(key)
    \/ /\ last = Idle
       /\ \E sl \in Slices : GetItemSlice(sl)
    \/ /\ last = Idle
       /\ \E op \in BinOps, other \in Operands : BinaryOp(op, other)
    \/ /\ last = Idle
       /\ \E op \in UnOps : UnaryOp(op)
    \/ ClearSameBit
    \/ DebugString
    \/ Return

Spec == Init /\ [][Next]_vars

(* ------------------- the documented value ranges ----------------------- *)

\* Largest and smallest value of a width and signedness, as documented.
RangeMax(bits, signed) == IF signed THEN 2^(bits - 1) - 1 ELSE 2^bits - 1

RangeMin(bits, signed) == IF signed THEN -(2^(bits - 1) - 1) ELSE 0

Fits(number, bits, signed) ==
    /\ bits >= 1
    /\ RangeMin(bits, signed) <= number
    /\ number <= RangeMax(bits, signed)

InRange(x) == Fits(x.number, x.bits, x.signed)

\* value, width and signed of two instances agree.
SameValue(x, y) ==
    /\ x.number = y.number
    /\ x.bits = y.bits
    /\ x.signed = y.signed

(* ------------------------------ claims --------------------------------- *)

\* C1: after every public operation the value of the instance lies within
\* the range of its current width and signedness, width >= 1, and so does
\* the value of every instance returned by a range read or an operator.
C1_RangeInvariant ==
    /\ InRange(self)
    /\ last.has => InRange(last.ret)

\* C2: construction fails with ValueError exactly when width <= 0, else
\* with OverflowError exactly when the value is outside the documented
\* range, and else yields an instance holding exactly the arguments.
C2_Construction ==
    last.op = "new" =>
        /\ (last.err = "ValueError") <=> (last.args.b <= 0)
        /\ last.args.b > 0 =>
             ((last.err = "OverflowError") <=>
                ~Fits(last.args.a, last.args.b, last.args.flag))
        /\ last.err \in {"None", "ValueError", "OverflowError"}
        /\ last.err = "None" =>
             /\ last.has
             /\ last.ret.number = last.args.a
             /\ last.ret.bits = last.args.b
             /\ last.ret.signed = last.args.flag
             /\ SameValue(self, last.ret)
\* The value a bit pattern denotes: the plain binary reading, less
\* 2^width for a signed instance when that reading exceeds the maximum.
Reading(pattern, bits, signed) ==
    LET u == ParseBase2(pattern) IN
    IF signed /\ u > RangeMax(bits, signed) THEN u - 2^bits ELSE u

\* The public positions (0 = most significant) a bit write selects.
Selected(call) ==
    IF call.op = "set_bit"
       THEN {IF call.args.a < 0 THEN call.args.a + call.pre.bits
                                ELSE call.args.a}
       ELSE LET key == RangeSeq(SliceIndices(call.args.sl, call.pre.bits))
            IN {key[j] : j \in DOMAIN key}

\* The bit string a bit write is documented to leave behind.
Written(call) ==
    [j \in 1..call.pre.bits |->
        IF (j - 1) \in Selected(call)
           THEN (IF call.args.flag THEN 1 ELSE 0)
           ELSE bit_string(call.pre)[j]]

\* C3: a successful bit write on an in-range instance puts the written bit
\* at every selected position, leaves the other positions, the width and
\* the signedness alone, and leaves the value equal to the reading of the
\* resulting pattern (two's complement for signed instances).
C3_BitWrites ==
    ( /\ last.op \in {"set_bit", "set_range"}
      /\ last.err = "None"
      /\ InRange(last.pre)
      /\ last.op = "set_bit" =>
           (-last.pre.bits <= last.args.a /\ last.args.a < last.pre.bits) )
    => /\ self.bits = last.pre.bits
       /\ self.signed = last.pre.signed
       /\ bit_string(self) = Written(last)
       /\ self.number = Reading(Written(last), self.bits, self.signed)

\* C4: set_value(v) fails with OverflowError exactly when v is outside the
\* range of the current width and signedness, otherwise the value becomes
\* v; a failure changes nothing.
C4_SetValue ==
    last.op = "set_value" =>
        /\ (last.err = "OverflowError") <=>
              ~Fits(last.args.a, last.pre.bits, last.pre.signed)
        /\ last.err \in {"None", "OverflowError"}
        /\ last.err = "None" =>
              SameValue(self, [last.pre EXCEPT !.number = last.args.a])
        /\ last.err # "None" => SameValue(self, last.pre)

\* The operand pairs on which a binary operator has an integer result.
HasIntegerResult(op, a, k) ==
    /\ binop_error(op, a, k) = "None"
    /\ op = "pow" => k >= 0

\* C5: a binary operator on an in-range instance returns a new instance of
\* the same width and signedness holding the integer result when that
\* result is in range, fails with OverflowError otherwise, and leaves the
\* operand instance alone.
C5_Arithmetic ==
    ( /\ last.op \in BinOps
      /\ InRange(last.pre)
      /\ HasIntegerResult(last.op, last.pre.number, last.args.a) )
    => LET result == binop_value(last.op, last.pre.number, last.args.a) IN
       /\ self = last.pre
       /\ Fits(result, last.pre.bits, last.pre.signed) =>
            /\ last.err = "None"
            /\ last.has
            /\ last.ret.number = result
            /\ last.ret.bits = last.pre.bits
            /\ last.ret.signed = last.pre.signed
       /\ ~Fits(result, last.pre.bits, last.pre.signed) =>
            /\ last.err = "OverflowError"
            /\ ~last.has

\* C6: on an in-range instance set_width(n) fails with ValueError exactly
\* when n <= 0 and, for n >= 1, with OverflowError exactly when the binary
\* reading of the current bit string exceeds the maximum of (n, signed);
\* widening never fails; a failure changes nothing, not even the range
\* that set_value accepts.
C6_SetWidthFailure ==
    (last.op = "set_width" /\ InRange(last.pre)) =>
        /\ (last.err = "ValueError") <=> (last.args.a <= 0)
        /\ last.args.a >= 1 =>
             ((last.err = "OverflowError") <=>
                (ParseBase2(bit_string(last.pre))
                   > RangeMax(last.args.a, last.pre.signed)))
        /\ last.args.a > last.pre.bits => last.err = "None"
        /\ last.err # "None" => self = last.pre

\* C7: a successful set_width(n) on an in-range instance leaves width n,
\* the same signedness, and as value the binary reading of the bit string
\* at the prior width, which is in range for (n, signed) and equals a
\* non-negative prior value.
C7_SetWidthResult ==
    (last.op = "set_width" /\ last.err = "None" /\ InRange(last.pre)) =>
        /\ self.bits = last.args.a
        /\ self.signed = last.pre.signed
        /\ self.number = ParseBase2(bit_string(last.pre))
        /\ InRange(self)
        /\ last.pre.number >= 0 => self.number = last.pre.number

\* C8: set_signed(s) on an in-range instance fails with OverflowError
\* exactly when the value is outside the range of (width, s); on success
\* only the signedness changes, to s; on failure nothing changes.
C8_SetSigned ==
    (last.op = "set_signed" /\ InRange(last.pre)) =>
        /\ (last.err = "OverflowError") <=>
              ~Fits(last.pre.number, last.pre.bits, last.args.flag)
        /\ last.err \in {"None", "OverflowError"}
        /\ last.err = "None" =>
              SameValue(self, [last.pre EXCEPT !.signed = last.args.flag])
        /\ last.err # "None" => SameValue(self, last.pre)

\* C9: a single-index read or write fails with IndexError, changing
\* nothing, for every index i >= width or i < -width, and does not fail
\* with IndexError for any other index.
C9_IndexError ==
    last.op \in {"get_bit", "set_bit"} =>
        IF last.args.a >= last.pre.bits \/ last.args.a < -last.pre.bits
           THEN last.err = "IndexError" /\ SameValue(self, last.pre)
           ELSE last.err # "IndexError"
\* The positions 0 .. width-1 a half-open slice start:stop:step selects,
\* stated directly: a negative bound counts from the end, an omitted
\* bound is the end the traversal starts from or runs to, and traversal
\* starts at the first position inside the bounds.
SliceBound(o, width) == IF o[1] < 0 THEN o[1] + width ELSE o[1]

Picked(sl, width) ==
    LET step == IF IsNone(sl[3]) THEN 1 ELSE sl[3][1] IN
    IF step > 0
       THEN LET from == IF IsNone(sl[1]) \/ SliceBound(sl[1], width) < 0
                           THEN 0 ELSE SliceBound(sl[1], width)
                upto == IF IsNone(sl[2]) THEN width
                                         ELSE SliceBound(sl[2], width)
            IN {i \in 0..(width - 1) :
                  i >= from /\ i < upto /\ (i - from) % step = 0}
       ELSE LET from == IF IsNone(sl[1]) \/ SliceBound(sl[1], width) >= width
                           THEN width - 1 ELSE SliceBound(sl[1], width)
                downto == IF IsNone(sl[2]) THEN -1
                                           ELSE SliceBound(sl[2], width)
            IN {i \in 0..(width - 1) :
                  i <= from /\ i > downto /\ (from - i) % (-step) = 0}

\* The selected positions in traversal order: ascending for a positive
\* step, descending for a negative one.
Traversal(sl, width) ==
    LET P == Picked(sl, width)
        backwards == ~IsNone(sl[3]) /\ sl[3][1] < 0
    IN [j \in 1..Cardinality(P) |->
          CHOOSE i \in P :
            Cardinality({m \in P : IF backwards THEN m > i ELSE m < i})
               = j - 1]

\* C10: a range read on an in-range instance fails with ValueError when
\* the slice selects no position; otherwise it returns a new signed
\* instance as wide as the number of selected positions whose bit string
\* is the selected bits in traversal order, a single position reading 0
\* when clear and -1 when set; the source is unchanged either way.
C10_GetRange ==
    (last.op = "get_range" /\ InRange(last.pre)) =>
        LET key == Traversal(last.args.sl, last.pre.bits)
            source == bit_string(last.pre)
        IN /\ self = last.pre
           /\ Len(key) = 0 => (last.err = "ValueError" /\ ~last.has)
           /\ Len(key) > 0 =>
                /\ last.err = "None"
                /\ last.has
                /\ last.ret.signed
                /\ last.ret.bits = Len(key)
                /\ bit_string(last.ret)
                     = [j \in 1..Len(key) |-> source[key[j] + 1]]
                /\ Len(key) = 1 =>
                     last.ret.number
                        = (IF source[key[1] + 1] = 1 THEN -1 ELSE 0)

\* A reversed read of a whole instance of the largest width whose bits do
\* not read the same backwards.
C10_Witness ==
    /\ last.op = "get_range"
    /\ InRange(last.pre)
    /\ last.err = "None"
    /\ last.args.sl[3] = <<-1>>
    /\ last.ret.bits = MaxBits
    /\ last.pre.bits = MaxBits
    /\ bit_string(last.ret) # bit_string(last.pre)
\* C11: on an in-range instance, setting a clear bit at an index in
\* [0, width) and then clearing it again leaves value, width and
\* signedness as they were before the two calls.
C11_SetThenClear ==
    ( /\ last.op = "set_then_clear"
      /\ InRange(last.pre)
      /\ 0 <= last.args.a /\ last.args.a < last.pre.bits
      /\ bit_string(last.pre)[last.args.a + 1] = 0 )
    => /\ last.err = "None"
       /\ SameValue(self, last.pre)
\* C12: evaluating the constructor call that debug_string renders for an
\* in-range instance succeeds and yields an instance of the same value,
\* width and signedness.
C12_DebugStringRoundTrip ==
    (last.op = "debug_string" /\ InRange(last.pre)) =>
        /\ last.err = "None"
        /\ last.has
        /\ SameValue(last.ret, last.pre)
        /\ self = last.pre
\* C13: on an in-range instance append(b) and prepend(b) never fail, grow
\* the width by exactly one, keep the signedness, and leave the bit string
\* equal to the old one followed by b (append) or preceded by b (prepend).
C13_Growth ==
    (last.op \in {"append", "prepend"} /\ InRange(last.pre)) =>
        LET b == IF last.args.flag THEN 1 ELSE 0
            s == bit_string(last.pre)
        IN /\ last.err = "None"
           /\ self.bits = last.pre.bits + 1
           /\ self.signed = last.pre.signed
           /\ last.op = "append" => bit_string(self) = s \o <<b>>
           /\ last.op = "prepend" => bit_string(self) = <<b>> \o s

\* A clear bit prepended to a negative signed instance.
C13_Witness ==
    /\ last.op = "prepend"
    /\ last.err = "None"
    /\ InRange(last.pre)
    /\ last.pre.signed
    /\ last.pre.number < 0
    /\ last.pre.bits >= 2
    /\ ~last.args.flag

\* C14: negating an in-range instance leaves it alone and either returns
\* a new instance of the same width and signedness holding the negated
\* value, when that value is in range, or fails with OverflowError; it
\* never returns nothing or an instance of the other signedness.
C14_Negate ==
    (last.op = "neg" /\ InRange(last.pre)) =>
        /\ self = last.pre
        /\ IF Fits(-last.pre.number, last.pre.bits, last.pre.signed)
              THEN /\ last.err = "None"
                   /\ last.has
                   /\ last.ret.number = -last.pre.number
                   /\ last.ret.bits = last.pre.bits
                   /\ last.ret.signed = last.pre.signed
              ELSE /\ last.err = "OverflowError"
                   /\ ~last.has
====
